---------------------------- MODULE Spec2Model ----------------------------
(***************************************************************************)
(* Model of get_infos.py: Juniper utilities that open a device session,    *)
(* issue NETCONF queries, extract small integers (units, VLANs, RT/RD      *)
(* values) from the replies and answer membership / next-free / lookup     *)
(* questions.  One public call runs at a time; its position is pc.         *)
(* Texts are sequences of one-character strings so that split, strip and   *)
(* int are computed as Python computes them.                               *)
(***************************************************************************)
EXTENDS Integers, Sequences, FiniteSets

\* ------------------------------------------------------------- bounds
\* Largest unit number a logical interface of the modelled device carries.
MaxUnit == 2
\* Largest VLAN tag / RT / RD value the modelled device carries.
MaxVlan == 1
\* Longest reply (records) for the unit, VLAN-list and RT/RD extractions.
MaxRecs == 3
\* Longest reply (records) for the VLAN-to-unit lookups.
MaxLookupRecs == 2
\* Most interface-vlan-member-list elements, and most members in total.
MaxLists == 2

\* ------------------------------------------------------------- texts
DigitChars == <<"0", "1", "2", "3", "4", "5", "6", "7", "8", "9">>

Whitespace == {" ", "\n"}

RECURSIVE Dec(_)
\* Decimal text of a natural number, as the device prints it.
Dec(n) == IF n < 10 THEN <<DigitChars[n + 1]>>
          ELSE Dec(n \div 10) \o <<DigitChars[(n % 10) + 1]>>

RECURSIVE split(_, _)
\* str.split(sep) for a one-character separator.
split(s, sep) ==
    IF \A i \in DOMAIN s : s[i] # sep THEN <<s>>
    ELSE LET i == CHOOSE k \in DOMAIN s :
                     s[k] = sep /\ \A j \in 1..(k - 1) : s[j] # sep
         IN <<SubSeq(s, 1, i - 1)>> \o split(SubSeq(s, i + 1, Len(s)), sep)

\* str.strip(): leading and trailing whitespace removed.
strip(s) ==
    LET keep == {i \in DOMAIN s : s[i] \notin Whitespace}
    IN IF keep = {} THEN <<>>
       ELSE LET lo == CHOOSE i \in keep : \A j \in keep : i <= j
                hi == CHOOSE i \in keep : \A j \in keep : j <= i
            IN SubSeq(s, lo, hi)

\* TRUE when int(s) succeeds: surrounding whitespace, then digits only.
IsIntText(s) ==
    LET t == strip(s)
    IN Len(t) > 0 /\ \A i \in DOMAIN t : \E d \in DOMAIN DigitChars : DigitChars[d] = t[i]

RECURSIVE DigitsValue(_)
DigitsValue(t) ==
    IF t = <<>> THEN 0
    ELSE 10 * DigitsValue(SubSeq(t, 1, Len(t) - 1))
         + ((CHOOSE d \in DOMAIN DigitChars : DigitChars[d] = t[Len(t)]) - 1)

\* int(s) for a text IsIntText accepts.
int(s) == DigitsValue(strip(s))

RECURSIVE Insert(_, _)
Insert(x, s) == IF s = <<>> THEN <<x>>
                ELSE IF x <= Head(s) THEN <<x>> \o s
                ELSE <<Head(s)>> \o Insert(x, Tail(s))

RECURSIVE sorted(_)
\* sorted(list): ascending, duplicates kept.
sorted(s) == IF s = <<>> THEN <<>> ELSE Insert(Head(s), sorted(Tail(s)))

\* list.__contains__ / "x in list"
containsSkipFirst(list, x) == \E i \in DOMAIN list : i > 1 /\ list[i] = x
contains(list, x) == \E i \in DOMAIN list : list[i] = x

\* itertools.count: the candidate after c.
countStuck(c) == c
count_next(c) == c + 1

\* ------------------------------------------------- the device's replies
\* <name> of a logical interface with unit u, as an un-normalized reply
\* carries it (trailing newline).
NameText(u) == <<"g", "e", "-", "0", "/", "2", "/", "5", ".">> \o Dec(u) \o <<"\n">>
\* A <name> without the '.' delimiter.
BadName == <<"l", "o", "0", "\n">>
\* <link-address> of a logical interface tagged with VLAN v: "[ 0x8100.v ] ".
LinkText(v) == <<"[", " ", "0", "x", "8", "1", "0", "0", ".">> \o Dec(v) \o <<" ", "]", " ">>
\* A <link-address> without the '.' delimiter.
BadLink == <<"[", " ", "]", " ">>
\* vrf-target/community "target:64512:v", and malformed variants.
RtText(v) == <<"t", ":", "6", "4", ":">> \o Dec(v)
\* route-distinguisher/rd-type "10.92:v".
RdText(v) == <<"1", "0", ".", "9", "2", ":">> \o Dec(v)
NoColonText == <<"t">>
NonIntText == <<"t", ":", "x", ":", "x">>
LoopbackIp == "10.1.1.1"

Units == 0..MaxUnit
Vlans == 0..MaxVlan

SeqsUpTo(S, n) == UNION {[1..k -> S] : k \in 0..n}

Names == {NameText(u) : u \in Units} \cup {BadName}
Links == {LinkText(v) : v \in Vlans} \cup {BadLink}

\* Replies to get_interface_information: the logical-interface records in
\* document order.  The field an operation never reads is held fixed.
UnitReplies == SeqsUpTo({[name |-> n, link |-> LinkText(0)] : n \in Names}, MaxRecs)
VlanReplies == SeqsUpTo({[name |-> NameText(0), link |-> l] : l \in Links}, MaxRecs)
LookupReplies == SeqsUpTo([name : Names, link : Links], MaxLookupRecs)

\* Replies to get_ethernet_switching_interface_information: the
\* interface-vlan-member-list elements, each the tag-ID texts of its members.
RECURSIVE Members(_)
Members(lists) == IF lists = <<>> THEN <<>> ELSE Head(lists) \o Members(Tail(lists))
SwitchReplies ==
    {r \in SeqsUpTo(SeqsUpTo({Dec(v) : v \in Vlans}, MaxLists), MaxLists) :
        Len(Members(r)) <= MaxLists}

\* Replies to get_config: the routing instances under config[-2].  has is
\* FALSE when the element is absent (find returns None).
Field(t) == [has |-> TRUE, text |-> t]
Absent == [has |-> FALSE, text |-> <<>>]
RtFields == {Field(RtText(v)) : v \in Vlans} \cup {Absent, Field(NoColonText), Field(NonIntText)}
RdFields == {Field(RdText(v)) : v \in Vlans} \cup {Absent, Field(NoColonText), Field(NonIntText)}
RtReplies == SeqsUpTo({[rt |-> f, rd |-> Field(RdText(0))] : f \in RtFields}, MaxRecs)
RdReplies == SeqsUpTo({[rt |-> Field(RtText(0)), rd |-> f] : f \in RdFields}, MaxRecs)

Styles == {"CLASSIC", "SWITCH", "OTHER"}


\* Arguments the callers pass.
Starts == 0..(MaxUnit + 1)
VlanKeys == {Dec(v) : v \in Vlans} \cup {<<"0">> \o Dec(1)}
Candidates == {Dec(x) : x \in 0..(MaxUnit + 1)} \cup {<<"0">> \o Dec(1)}

\* ------------------------------------------- the functions' loop bodies
Ok(l) == [exc |-> "", list |-> l]
Failed(e) == [exc |-> e, list |-> <<>>]

RECURSIVE unit_loop(_, _)
\* for item in interface.iter('logical-interface'):
\*     all_units.append(int((units.split('.')[1]).strip()))
unit_loop(items, all_units) ==
    IF items = <<>> THEN Ok(all_units)
    ELSE LET parts == split(Head(items).name, ".")
         IN IF Len(parts) < 2 THEN Failed("IndexError")
            ELSE IF ~IsIntText(strip(parts[2])) THEN Failed("ValueError")
            ELSE unit_loop(Tail(items), Append(all_units, int(strip(parts[2]))))

\* get_int_units after the session is closed: extract, then sorted().
get_int_units_unsorted(interface) == unit_loop(interface, <<>>)
get_int_units(interface) ==
    LET r == unit_loop(interface, <<>>)
    IN IF r.exc # "" THEN r ELSE Ok(sorted(r.list))

\* item.find('link-address').text.split('.')[1].split(']')[0].split(' ')[0].strip()
\* for a text that has the '.' delimiter.
link_vlan_text(text) == strip(split(split(split(text, ".")[2], "]")[1], " ")[1])

RECURSIVE classic_loop(_, _)
classic_loop(items, all_vlans) ==
    IF items = <<>> THEN Ok(all_vlans)
    ELSE LET text == Head(items).link
         IN IF Len(split(text, ".")) < 2 THEN Failed("IndexError")
            ELSE IF ~IsIntText(link_vlan_text(text)) THEN Failed("ValueError")
            ELSE classic_loop(Tail(items), Append(all_vlans, int(link_vlan_text(text))))

RECURSIVE member_loop(_, _)
\* the inner loop: every interface-vlan-member's tag ID is appended.
member_loop(members, all_vlans) ==
    IF members = <<>> THEN Ok(all_vlans)
    ELSE IF ~IsIntText(Head(members)) THEN Failed("ValueError")
    ELSE member_loop(Tail(members), Append(all_vlans, int(Head(members))))

RECURSIVE switch_loop(_, _, _)
\* for item in interface.iter('interface-vlan-member-list'):
\*     for item in interface.iter('interface-vlan-member'):
\* the inner loop iterates the whole reply, once per member list.
switch_loop(lists, interface, all_vlans) ==
    IF lists = <<>> THEN Ok(all_vlans)
    ELSE LET r == member_loop(Members(interface), all_vlans)
         IN IF r.exc # "" THEN r ELSE switch_loop(Tail(lists), interface, r.list)

\* get_int_vlans after the session is closed, by device style.
get_int_vlans_from_names(style, interface) ==
    LET r == IF style = "CLASSIC" THEN unit_loop(interface, <<>>)
             ELSE switch_loop(interface, interface, <<>>)
    IN IF r.exc # "" THEN r ELSE Ok(sorted(r.list))
get_int_vlans(style, interface) ==
    LET r == IF style = "CLASSIC" THEN classic_loop(interface, <<>>)
             ELSE switch_loop(interface, interface, <<>>)
    IN IF r.exc # "" THEN r ELSE Ok(sorted(r.list))

\* The try body of get_rts / get_rds for one routing instance: the field,
\* the index of the ':' piece that holds the number.  ok is FALSE when the
\* body raises (AttributeError, IndexError, ValueError).
try_field(f, idx) ==
    IF ~f.has THEN [ok |-> FALSE, num |-> 0]
    ELSE LET parts == split(f.text, ":")
         IN IF Len(parts) < idx + 1 THEN [ok |-> FALSE, num |-> 0]
            ELSE IF ~IsIntText(parts[idx + 1]) THEN [ok |-> FALSE, num |-> 0]
            ELSE [ok |-> TRUE, num |-> int(parts[idx + 1])]

RECURSIVE rts_loop_abort(_, _)
\* a loop whose first failing instance ends the extraction.
rts_loop_abort(items, targets) ==
    IF items = <<>> THEN targets
    ELSE LET t == try_field(Head(items).rt, 2)
         IN IF t.ok THEN rts_loop_abort(Tail(items), Append(targets, t.num))
            ELSE targets

RECURSIVE rts_loop(_, _)
\* try: targets.append(int(rts.split(':')[2]))  except: pass
rts_loop(items, targets) ==
    IF items = <<>> THEN targets
    ELSE LET t == try_field(Head(items).rt, 2)
         IN rts_loop(Tail(items), IF t.ok THEN Append(targets, t.num) ELSE targets)

RECURSIVE rds_loop(_, _)
\* try: distinguishers.append(int(rds.split(':')[1]))  except: pass
rds_loop(items, distinguishers) ==
    IF items = <<>> THEN distinguishers
    ELSE LET t == try_field(Head(items).rd, 1)
         IN rds_loop(Tail(items),
                     IF t.ok THEN Append(distinguishers, t.num) ELSE distinguishers)

get_rts_abort(config) == sorted(rts_loop_abort(config, <<>>))
get_rts(config) == sorted(rts_loop(config, <<>>))
get_rds(config) == sorted(rds_loop(config, <<>>))

\* What a lookup ends with: kind is "return" (a unit text), "none" (the
\* function falls off its end, Python's None) or "raise".
Found(t) == [kind |-> "return", exc |-> "", text |-> t]
FellOff == [kind |-> "none", exc |-> "", text |-> <<>>]
Raised(e) == [kind |-> "raise", exc |-> e, text |-> <<>>]

RECURSIVE find_unit_for_vlan(_, _)
\* for item in ...: if <vlan text> == vlan: return <unit text>
find_unit_for_vlan(items, vlan) ==
    IF items = <<>> THEN FellOff
    ELSE IF Len(split(Head(items).link, ".")) < 2 THEN Raised("IndexError")
    ELSE IF link_vlan_text(Head(items).link) = vlan
         THEN IF Len(split(Head(items).name, ".")) < 2 THEN Raised("IndexError")
              ELSE Found(strip(split(Head(items).name, ".")[2]))
    ELSE find_unit_for_vlan(Tail(items), vlan)

RECURSIVE find_unit_for_vlan_lo(_, _, _)
\* for item in ...: if <vlan text> == vlan: unit = <unit text>
\* return (unit, loopbackip): unit is unbound when no record matched.
find_unit_for_vlan_lo(items, vlan, unit) ==
    IF items = <<>>
    THEN IF unit.kind = "none" THEN Raised("UnboundLocalError") ELSE unit
    ELSE IF Len(split(Head(items).link, ".")) < 2 THEN Raised("IndexError")
    ELSE IF link_vlan_text(Head(items).link) = vlan
         THEN IF Len(split(Head(items).name, ".")) < 2 THEN Raised("IndexError")
              ELSE find_unit_for_vlan_lo(Tail(items), vlan,
                                         Found(strip(split(Head(items).name, ".")[2])))
    ELSE find_unit_for_vlan_lo(Tail(items), vlan, unit)

\* ------------------------------------------------------------- state
VARIABLES
    op,          \* the public function being executed, "" when none is
    pc,          \* its position: idle, open, facts, rpc, rpc_lo, xpath, close, body, scan, done
    session,     \* dev: "none" (not opened), "open", "closed"
    style,       \* facts['ifd_style'] once read, "" before
    start,       \* argument start of next_unit_int / next_unit_int_lo
    vlan,        \* argument vlan of the lookups (a text)
    value,       \* argument unit / vlan / rt / rd of the is_* functions (a text)
    interface,   \* reply of the interface query
    config,      \* config[-2] of the get_config reply
    loopback,    \* reply of the lo0.0 query: "unset", "inet" (has ifa-local), "none"
    used,        \* the list next() tests candidates against
    cand,        \* the candidate count(start) has reached
    next_unit,   \* next_unit of next_unit_int_lo
    loopbackip,  \* loopbackip once extracted
    queries,     \* the rpc calls issued in this execution, each with dev's state then
    res          \* how the execution ended

vars == <<op, pc, session, style, start, vlan, value, interface, config, loopback,
          used, cand, next_unit, loopbackip, queries, res>>

UnitOps == {"get_int_units", "is_unit_int", "next_unit_int"}
VlanOps == {"get_int_vlans", "is_vlan_int"}
RtOps == {"get_rts", "is_rt"}
RdOps == {"get_rds", "is_rd"}
LoOps == {"next_unit_int_lo", "find_unit_for_vlan_lo"}
LookupOps == {"find_unit_for_vlan", "find_unit_for_vlan_lo"}
ScanOps == {"next_unit_int", "next_unit_int_lo"}
IsOps == {"is_unit_int", "is_vlan_int", "is_rt", "is_rd"}
Ops == UnitOps \cup VlanOps \cup RtOps \cup RdOps \cup LoOps \cup LookupOps

Pending == [kind |-> "pending", exc |-> "", list |-> <<>>, num |-> 0,
            text |-> <<>>, flag |-> FALSE, ip |-> ""]
Raise(e) == [Pending EXCEPT !.kind = "raise", !.exc = e]
ReturnList(l) == [Pending EXCEPT !.kind = "return", !.list = l]
ReturnFlag(b) == [Pending EXCEPT !.kind = "return", !.flag = b]
ReturnNum(n) == [Pending EXCEPT !.kind = "return", !.num = n]

\* "int(x) in list" of the is_* functions.
is_in_text(x, list) ==
    IF IsIntText(x) THEN ReturnFlag(\E i \in DOMAIN list : Dec(list[i]) = x)
    ELSE Raise("ValueError")
is_in(x, list) ==
    IF IsIntText(x) THEN ReturnFlag(contains(list, int(x))) ELSE Raise("ValueError")

Init ==
    /\ op = ""
    /\ pc = "idle"
    /\ session = "none"
    /\ style = ""
    /\ start = 0
    /\ vlan = <<>>
    /\ value = <<>>
    /\ interface = <<>>
    /\ config = <<>>
    /\ loopback = "unset"
    /\ used = <<>>
    /\ cand = 0
    /\ next_unit = 0
    /\ loopbackip = ""
    /\ queries = <<>>
    /\ res = Pending

\* A caller invokes public function o with its arguments.
Call(o) ==
    /\ pc = "idle"
    /\ op' = o
    /\ pc' = "open"
    /\ start' \in (IF o \in ScanOps THEN Starts ELSE {0})
    /\ vlan' \in (IF o \in LookupOps THEN VlanKeys ELSE {<<>>})
    /\ value' \in (IF o \in IsOps THEN Candidates ELSE {<<>>})
    /\ UNCHANGED <<session, style, interface, config, loopback, used, cand,
                   next_unit, loopbackip, queries, res>>

\* dev = Device(...); dev.open()
Open ==
    /\ pc = "open"
    /\ \/ /\ session' = "open"
          /\ pc' = IF op \in VlanOps THEN "facts" ELSE "rpc"
          /\ UNCHANGED res
       \/ /\ res' = Raise("ConnectError")
          /\ pc' = "done"
          /\ UNCHANGED session
    /\ UNCHANGED <<op, style, start, vlan, value, interface, config, loopback, used,
                   cand, next_unit, loopbackip, queries>>

\* facts = dev.facts; the if / elif / else on facts['ifd_style']
Facts ==
    /\ pc = "facts"
    /\ \E s \in Styles :
          /\ style' = s
          /\ IF s \in {"CLASSIC", "SWITCH"}
             THEN pc' = "rpc" /\ UNCHANGED res
             ELSE pc' = "done" /\ res' = Raise("TypeError")
    /\ UNCHANGED <<op, session, start, vlan, value, interface, config, loopback, used,
                   cand, next_unit, loopbackip, queries>>

RpcName ==
    IF op \in RtOps \cup RdOps THEN "get_config"
    ELSE IF op \in VlanOps /\ style = "SWITCH"
         THEN "get_ethernet_switching_interface_information"
    ELSE "get_interface_information"

\* The first dev.rpc call of the function: it raises, or its reply is bound.
Rpc ==
    /\ pc = "rpc"
    /\ queries' = Append(queries, [rpc |-> RpcName, dev |-> session])
    /\ \/ /\ res' = Raise("RpcError")
          /\ pc' = "done"
          /\ UNCHANGED <<interface, config>>
       \/ /\ pc' = IF op \in LoOps THEN "rpc_lo" ELSE "close"
          /\ UNCHANGED res
          /\ \/ /\ op \in UnitOps \cup {"next_unit_int_lo"}
                /\ interface' \in UnitReplies
                /\ UNCHANGED config
             \/ /\ op \in VlanOps /\ style = "CLASSIC"
                /\ interface' \in VlanReplies
                /\ UNCHANGED config
             \/ /\ op \in VlanOps /\ style = "SWITCH"
                /\ interface' \in SwitchReplies
                /\ UNCHANGED config
             \/ /\ op \in LookupOps
                /\ interface' \in LookupReplies
                /\ UNCHANGED config
             \/ /\ op \in RtOps
                /\ config' \in RtReplies
                /\ UNCHANGED interface
             \/ /\ op \in RdOps
                /\ config' \in RdReplies
                /\ UNCHANGED interface
    /\ UNCHANGED <<op, session, style, start, vlan, value, loopback, used, cand,
                   next_unit, loopbackip>>

\* loopback = dev.rpc.get_interface_information(interface_name='lo0.0', ...)
RpcLo ==
    /\ pc = "rpc_lo"
    /\ queries' = Append(queries, [rpc |-> "get_interface_information", dev |-> session])
    /\ \/ /\ res' = Raise("RpcError")
          /\ pc' = "done"
          /\ UNCHANGED loopback
       \/ /\ loopback' \in {"inet", "none"}
          /\ pc' = IF op = "find_unit_for_vlan_lo" THEN "xpath" ELSE "close"
          /\ UNCHANGED res
    /\ UNCHANGED <<op, session, style, start, vlan, value, interface, config, used,
                   cand, next_unit, loopbackip>>

\* loopbackip = loopback.xpath(...)[0].text: before dev.close() in
\* find_unit_for_vlan_lo, after the scan in next_unit_int_lo, whose return
\* statement follows it.
Xpath ==
    /\ pc = "xpath"
    /\ IF loopback = "inet"
       THEN /\ loopbackip' = LoopbackIp
            /\ IF op = "find_unit_for_vlan_lo"
               THEN pc' = "close" /\ UNCHANGED res
               ELSE /\ pc' = "done"
                    /\ res' = [ReturnNum(next_unit) EXCEPT !.ip = LoopbackIp]
       ELSE /\ res' = Raise("IndexError")
            /\ pc' = "done"
            /\ UNCHANGED loopbackip
    /\ UNCHANGED <<op, session, style, start, vlan, value, interface, config, loopback,
                   used, cand, next_unit, queries>>

\* dev.close()
Close ==
    /\ pc = "close"
    /\ session' = "closed"
    /\ pc' = "body"
    /\ UNCHANGED <<op, style, start, vlan, value, interface, config, loopback, used,
                   cand, next_unit, loopbackip, queries, res>>

\* The rest of get_int_units, and of its callers is_unit_int and
\* next_unit_int up to the scan.
GetIntUnits ==
    /\ pc = "body" /\ op \in UnitOps
    /\ LET r == get_int_units(interface)
       IN IF r.exc # ""
          THEN res' = Raise(r.exc) /\ pc' = "done" /\ UNCHANGED <<used, cand>>
          ELSE IF op = "next_unit_int"
          THEN used' = r.list /\ cand' = start /\ pc' = "scan" /\ UNCHANGED res
          ELSE /\ res' = IF op = "is_unit_int" THEN is_in(value, r.list)
                         ELSE ReturnList(r.list)
               /\ pc' = "done"
               /\ UNCHANGED <<used, cand>>
    /\ UNCHANGED <<op, session, style, start, vlan, value, interface, config, loopback,
                   next_unit, loopbackip, queries>>

\* The extraction loop of next_unit_int_lo (all_units is not sorted).
NextUnitIntLoUnits ==
    /\ pc = "body" /\ op = "next_unit_int_lo"
    /\ LET r == unit_loop(interface, <<>>)
       IN IF r.exc # ""
          THEN res' = Raise(r.exc) /\ pc' = "done" /\ UNCHANGED <<used, cand>>
          ELSE used' = r.list /\ cand' = start /\ pc' = "scan" /\ UNCHANGED res
    /\ UNCHANGED <<op, session, style, start, vlan, value, interface, config, loopback,
                   next_unit, loopbackip, queries>>

\* next(ifilterfalse(list.__contains__, count(start))), one candidate a step.
Scan ==
    /\ pc = "scan"
    /\ IF contains(used, cand)
       THEN cand' = count_next(cand) /\ UNCHANGED <<pc, res, next_unit>>
       ELSE IF op = "next_unit_int"
       THEN res' = ReturnNum(cand) /\ pc' = "done" /\ UNCHANGED <<cand, next_unit>>
       ELSE next_unit' = cand /\ pc' = "xpath" /\ UNCHANGED <<cand, res>>
    /\ UNCHANGED <<op, session, style, start, vlan, value, interface, config, loopback,
                   used, loopbackip, queries>>

\* The rest of get_int_vlans, and of its caller is_vlan_int.
GetIntVlans ==
    /\ pc = "body" /\ op \in VlanOps
    /\ LET r == get_int_vlans(style, interface)
       IN res' = IF r.exc # "" THEN Raise(r.exc)
                 ELSE IF op = "is_vlan_int" THEN is_in(value, r.list)
                 ELSE ReturnList(r.list)
    /\ pc' = "done"
    /\ UNCHANGED <<op, session, style, start, vlan, value, interface, config, loopback,
                   used, cand, next_unit, loopbackip, queries>>

\* The rest of get_rts, and of its caller is_rt.
GetRts ==
    /\ pc = "body" /\ op \in RtOps
    /\ res' = IF op = "is_rt" THEN is_in(value, get_rts(config))
              ELSE ReturnList(get_rts(config))
    /\ pc' = "done"
    /\ UNCHANGED <<op, session, style, start, vlan, value, interface, config, loopback,
                   used, cand, next_unit, loopbackip, queries>>

\* The rest of get_rds, and of its caller is_rd.
GetRds ==
    /\ pc = "body" /\ op \in RdOps
    /\ res' = IF op = "is_rd" THEN is_in(value, get_rds(config))
              ELSE ReturnList(get_rds(config))
    /\ pc' = "done"
    /\ UNCHANGED <<op, session, style, start, vlan, value, interface, config, loopback,
                   used, cand, next_unit, loopbackip, queries>>

\* The loop of find_unit_for_vlan and what the function ends with.
FindUnitForVlan ==
    /\ pc = "body" /\ op = "find_unit_for_vlan"
    /\ LET r == find_unit_for_vlan(interface, vlan)
       IN res' = [Pending EXCEPT !.kind = r.kind, !.exc = r.exc, !.text = r.text]
    /\ pc' = "done"
    /\ UNCHANGED <<op, session, style, start, vlan, value, interface, config, loopback,
                   used, cand, next_unit, loopbackip, queries>>

\* The loop of find_unit_for_vlan_lo and its return (unit, loopbackip).
FindUnitForVlanLo ==
    /\ pc = "body" /\ op = "find_unit_for_vlan_lo"
    /\ LET r == find_unit_for_vlan_lo(interface, vlan, FellOff)
       IN res' = [Pending EXCEPT !.kind = r.kind, !.exc = r.exc, !.text = r.text,
                                 !.ip = IF r.kind = "return" THEN loopbackip ELSE ""]
    /\ pc' = "done"
    /\ UNCHANGED <<op, session, style, start, vlan, value, interface, config, loopback,
                   used, cand, next_unit, loopbackip, queries>>

\* The execution is over; the caller has its result and nothing is kept.
Finish ==
    /\ pc = "done"
    /\ op' = ""
    /\ pc' = "idle"
    /\ session' = "none"
    /\ style' = ""
    /\ start' = 0
    /\ vlan' = <<>>
    /\ value' = <<>>
    /\ interface' = <<>>
    /\ config' = <<>>
    /\ loopback' = "unset"
    /\ used' = <<>>
    /\ cand' = 0
    /\ next_unit' = 0
    /\ loopbackip' = ""
    /\ queries' = <<>>
    /\ res' = Pending

Next ==
    \/ \E o \in Ops : Call(o)
    \/ Open
    \/ Facts
    \/ Rpc
    \/ RpcLo
    \/ Xpath
    \/ Close
    \/ GetIntUnits
    \/ NextUnitIntLoUnits
    \/ Scan
    \/ GetIntVlans
    \/ GetRts
    \/ GetRds
    \/ FindUnitForVlan
    \/ FindUnitForVlanLo
    \/ Finish

Spec == Init /\ [][Next]_vars

\* Python runs the generator expression once next() is called on it: a
\* scan step that can be taken is not put off for ever.
FairSpec == Spec /\ WF_vars(Scan)

\* ------------------------------------------------ what the device holds
\* The identifiers the replies carry, read off the texts the device
\* printed rather than through the functions' parsing.
UnitsIn(recs) == {u \in Units : \E i \in DOMAIN recs : recs[i].name = NameText(u)}
VlansIn(recs) == {v \in Vlans : \E i \in DOMAIN recs : recs[i].link = LinkText(v)}
TagsIn(lists) == {v \in Vlans : \E i \in DOMAIN Members(lists) : Members(lists)[i] = Dec(v)}
RtsIn(insts) == {v \in Vlans : \E i \in DOMAIN insts : insts[i].rt = Field(RtText(v))}
RdsIn(insts) == {v \in Vlans : \E i \in DOMAIN insts : insts[i].rd = Field(RdText(v))}

Occurrences(list, x) == Cardinality({i \in DOMAIN list : list[i] = x})
Ascending(list) == \A i, j \in DOMAIN list : i < j => list[i] <= list[j]
Distinct(list) == \A i, j \in DOMAIN list : i # j => list[i] # list[j]
Permutations(n) == {p \in [1..n -> 1..n] : \A i, j \in 1..n : i # j => p[i] # p[j]}
Permuted(list, p) == [i \in DOMAIN list |-> list[p[i]]]

Returned(ops) == pc = "done" /\ op \in ops /\ res.kind = "return"

\* The integer a caller's text denotes (decimal, leading zero allowed).
ValueOf(x) == CHOOSE n \in 0..(MaxUnit + 1) : x = Dec(n) \/ x = <<"0">> \o Dec(n)

\* Record i carries the requested VLAN: its tag, printed, is the key.
Carries(recs, i, key) == \E v \in Vlans : recs[i].link = LinkText(v) /\ Dec(v) = key
UnitTextOf(rec) == Dec(CHOOSE u \in Units : rec.name = NameText(u))
WellFormed(recs) == \A i \in DOMAIN recs : recs[i].name # BadName /\ recs[i].link # BadLink

\* ------------------------------------------------------------- claims

\* C1: the next-free operation (next_unit_int, and the unit half of
\* next_unit_int_lo) returns n with n >= start, n not among the units U of
\* the reply, and every integer in [start, n) in U; it returns start
\* itself when start is not in U (U empty included).
NextFreeContract ==
    Returned(ScanOps) =>
        LET U == UnitsIn(interface)
            n == res.num
        IN /\ n >= start
           /\ n \notin U
           /\ \A k \in start..(n - 1) : k \in U
           /\ (start \notin U => n = start)

\* C1 witness: next_unit_int_lo has returned a unit two or more past
\* start, having stepped over used units.
NextFreeSkipped ==
    Returned({"next_unit_int_lo"}) /\ res.num >= start + 2 /\ res.ip = LoopbackIp

\* C2: when no record carries the requested VLAN, the lookup ends with a
\* NOT_FOUND result and raises no error, for every reply, the empty one
\* included.  Python's None is taken as the NOT_FOUND result here.
MissEndsNotFound ==
    (/\ pc = "done" /\ op \in LookupOps /\ session = "closed"
     /\ WellFormed(interface)
     /\ \A i \in DOMAIN interface : ~Carries(interface, i, vlan))
        => res.kind = "none"

\* C3: both lookups return the unit text of the first record, in document
\* order, whose VLAN text equals the key.
FirstMatchWins ==
    (Returned(LookupOps) /\ WellFormed(interface)) =>
        \E i \in DOMAIN interface :
            /\ Carries(interface, i, vlan)
            /\ \A j \in 1..(i - 1) : ~Carries(interface, j, vlan)
            /\ res.text = UnitTextOf(interface[i])

\* C4: get_int_units returns, ascending, exactly one integer per record,
\* the number after the '.' of its name, and the same list for every
\* permutation of the records.
ListUsedUnitsSorted ==
    Returned({"get_int_units"}) =>
        /\ Len(res.list) = Len(interface)
        /\ Ascending(res.list)
        /\ \A u \in Units : Occurrences(res.list, u)
               = Cardinality({i \in DOMAIN interface : interface[i].name = NameText(u)})
        /\ \A p \in Permutations(Len(interface)) :
               get_int_units(Permuted(interface, p)).list = res.list

\* C4 witness: get_int_units has returned for a reply whose first two
\* records are in descending unit order.
UnitsReturnedFromUnordered ==
    /\ Returned({"get_int_units"})
    /\ Len(interface) >= 2
    /\ \E u1, u2 \in Units : /\ u1 > u2
                             /\ interface[1].name = NameText(u1)
                             /\ interface[2].name = NameText(u2)

\* C5: each is_* operation returns true exactly when the integer value of
\* its argument is among the identifiers of the reply; and the value the
\* next-free operation returns is not in the list it was tested against.
MembershipExact ==
    /\ Returned({"is_unit_int"}) => (res.flag <=> ValueOf(value) \in UnitsIn(interface))
    /\ Returned({"is_vlan_int"}) =>
           (res.flag <=> ValueOf(value) \in (IF style = "CLASSIC" THEN VlansIn(interface)
                                            ELSE TagsIn(interface)))
    /\ Returned({"is_rt"}) => (res.flag <=> ValueOf(value) \in RtsIn(config))
    /\ Returned({"is_rd"}) => (res.flag <=> ValueOf(value) \in RdsIn(config))
    /\ Returned(ScanOps) => ~is_in(Dec(res.num), used).flag

\* C5 witness: is_unit_int has answered True for the argument "01".
MemberFoundByValue ==
    Returned({"is_unit_int"}) /\ res.flag /\ value = <<"0">> \o Dec(1)

\* C6: get_rts and get_rds skip an instance whose field is absent or does
\* not parse, without error, and return exactly the sorted values of the
\* well-formed instances, wherever the malformed ones sit.
TolerantExtraction ==
    /\ (pc = "done" /\ op \in RtOps \cup RdOps /\ session = "closed") => res.kind = "return"
    /\ Returned({"get_rts"}) =>
           /\ Ascending(res.list)
           /\ Len(res.list) = Cardinality({i \in DOMAIN config :
                                  \E v \in Vlans : config[i].rt = Field(RtText(v))})
           /\ \A v \in Vlans : Occurrences(res.list, v)
                  = Cardinality({i \in DOMAIN config : config[i].rt = Field(RtText(v))})
    /\ Returned({"get_rds"}) =>
           /\ Ascending(res.list)
           /\ Len(res.list) = Cardinality({i \in DOMAIN config :
                                  \E v \in Vlans : config[i].rd = Field(RdText(v))})
           /\ \A v \in Vlans : Occurrences(res.list, v)
                  = Cardinality({i \in DOMAIN config : config[i].rd = Field(RdText(v))})

\* C6 witness: get_rts has returned the value of an instance that follows
\* one without vrf-target/community.
MalformedInstanceSkipped ==
    /\ Returned({"get_rts"})
    /\ Len(config) >= 2
    /\ config[1].rt = Absent
    /\ config[2].rt = Field(RtText(1))
    /\ res.list = <<1>>

\* C7: get_int_vlans picks its extraction rule by the device style:
\* CLASSIC reads the link-address fields of an interface query, SWITCH the
\* member tag IDs of an ethernet-switching query; any other style ends the
\* call with TypeError, no VLAN list is returned and no query is issued.
StyleSelectsRule ==
    /\ (op \in VlanOps /\ style = "OTHER") =>
           /\ queries = <<>>
           /\ pc = "done" /\ res.kind = "raise" /\ res.exc = "TypeError"
    /\ (op \in VlanOps /\ res.kind = "return") => style \in {"CLASSIC", "SWITCH"}
    /\ (Returned({"get_int_vlans"}) /\ style = "CLASSIC") =>
           /\ queries = <<[rpc |-> "get_interface_information", dev |-> "open"]>>
           /\ Ascending(res.list)
           /\ Len(res.list) = Len(interface)
           /\ \A v \in Vlans : Occurrences(res.list, v)
                  = Cardinality({i \in DOMAIN interface : interface[i].link = LinkText(v)})
    /\ (Returned({"get_int_vlans"}) /\ style = "SWITCH") =>
           /\ queries = <<[rpc |-> "get_ethernet_switching_interface_information",
                           dev |-> "open"]>>
           /\ Ascending(res.list)
           /\ {res.list[i] : i \in DOMAIN res.list} = TagsIn(interface)

\* C7 witness: get_int_vlans has ended on a device whose style is neither
\* CLASSIC nor SWITCH.
UnsupportedStyleEnded ==
    pc = "done" /\ op = "get_int_vlans" /\ style = "OTHER" /\ res.exc = "TypeError"

\* C8: the next-free scan tests no candidate beyond start + |used|, returns
\* a value of at most start + |used|, and terminates.
ScanTerminates ==
    /\ [](pc = "scan" => cand <= start + Cardinality({used[i] : i \in DOMAIN used}))
    /\ [](Returned(ScanOps) => res.num <= start + Cardinality({used[i] : i \in DOMAIN used}))
    /\ (pc = "scan") ~> (pc # "scan")

\* C8 witness: the scan is testing the last candidate it can reach,
\* start + |used|, over a list of two or more distinct units.
ScanAtBound ==
    /\ pc = "scan"
    /\ Cardinality({used[i] : i \in DOMAIN used}) >= 2
    /\ cand = start + Cardinality({used[i] : i \in DOMAIN used})

\* C9: in SWITCH mode, for a reply whose member tag IDs are pairwise
\* distinct, get_int_vlans returns each tag ID exactly once, whatever the
\* number of interface-vlan-member-list elements.
SwitchTagsOnce ==
    (Returned({"get_int_vlans"}) /\ style = "SWITCH" /\ Distinct(Members(interface))) =>
        /\ Len(res.list) = Len(Members(interface))
        /\ Distinct(res.list)

\* C10: no execution ends with its session still open, and every query is
\* issued while the session is open.
SessionReleased ==
    /\ pc = "done" => session # "open"
    /\ \A i \in DOMAIN queries : queries[i].dev = "open"

=============================================================================
